---- MODULE Spec2Model ----
(***************************************************************************)
(* Stock access restriction layer (res.users / stock.location /           *)
(* stock.quant / stock.move / sale.order overrides).                       *)
(*                                                                         *)
(* The state is the user's restriction configuration together with the    *)
(* location tree; every request (a call of one overridden method) is one  *)
(* action that records its arguments and its outcome in `last`.           *)
(***************************************************************************)
EXTENDS Integers, Sequences, FiniteSets, TLC

\* ------------------------------------------------------------------ bounds
MaxLoc == 3        \* number of stock.location records
MaxWh == 2         \* number of stock.warehouse records

Locations == 1..MaxLoc
Warehouses == 1..MaxWh
NoLoc == 0         \* False / empty many2one to stock.location
NoWh == 0          \* False / empty many2one to stock.warehouse
Absent == -1       \* a key that is not in vals; "no such element"
Operations == {"read", "write"}
Usages == {"internal", "transit", "view", "customer"}
OpsUsages == {"internal", "view"}   \* the usage tags SpecOps switches between
None == [op |-> "none"]

VARIABLES
    location_id,            \* stock.location.location_id : parent of each location (NoLoc for a root)
    usage,                  \* stock.location.usage
    restrict_stock_access,  \* res.users.restrict_stock_access
    allowed_location_ids,   \* res.users.allowed_location_ids
    allowed_warehouse_ids,  \* res.users.allowed_warehouse_ids
    has_stock_restriction,  \* res.users.has_stock_restriction (computed, not stored)
    last                    \* the last request: its arguments and its outcome

vars == <<location_id, usage, restrict_stock_access, allowed_location_ids,
          allowed_warehouse_ids, has_stock_restriction, last>>

\* ---------------------------------------------------------- request inputs
\* vals_list of create(): the location_id of each vals, NoLoc where none is given
ValsLists == (SUBSET (Locations \cup {NoLoc})) \ {{}}
\* vals['location_id'] of write()
Destinations == Locations \cup {NoLoc, Absent}
\* a move is <<location_id, location_dest_id>>, from one location to another
Moves == {m \in Locations \X Locations : m[1] # m[2]}
\* the recordset check_access_rule() is called on: one move, or two
MoveBatches == {{m1, m2} : m1 \in Moves, m2 \in Moves}

\* ----------------------------------------------------------- list helpers
Min(S) == CHOOSE x \in S : \A y \in S : x <= y

RECURSIVE SetToSeq(_)
\* a recordset's .ids / list(set(...)): the ids in ascending order
SetToSeq(S) == IF S = {} THEN <<>> ELSE <<Min(S)>> \o SetToSeq(S \ {Min(S)})

Range(s) == {s[i] : i \in 1..Len(s)}

MoveKey(m) == m[1] * (MaxLoc + 1) + m[2]
MinMove(S) == CHOOSE m \in S : \A n \in S : MoveKey(m) <= MoveKey(n)

RECURSIVE MovesToSeq(_)
\* a recordset of moves in iteration order
MovesToSeq(S) == IF S = {} THEN <<>> ELSE <<MinMove(S)>> \o MovesToSeq(S \ {MinMove(S)})

NoDuplicates(s) == \A i, j \in 1..Len(s) : i # j => s[i] # s[j]

\* ---------------------------------------------------------------- res.users
\* faulty variant: the cached field is not recomputed when its dependencies change
compute_has_stock_restriction_stale(flag, allowed) == has_stock_restriction

\* user.has_stock_restriction = user.restrict_stock_access and user.allowed_location_ids
compute_has_stock_restriction(flag, allowed) == flag /\ allowed # {}

RECURSIVE child_of(_, _)
\* the ('id', 'child_of', ids) leaf: l is one of ids or has an ancestor among them
child_of(l, ids) == l # NoLoc /\ (l \in ids \/ child_of(location_id[l], ids))

\* stock.location sudo().search(domain).ids, the domain given as a set of ids
search_ids(matching) == SetToSeq(matching)

\* faulty variant: the usage leaf of the domain is missing
get_effective_location_ids_no_usage ==
    IF ~restrict_stock_access \/ allowed_location_ids = {}
    THEN <<>>
    ELSE search_ids({l \in Locations : child_of(l, allowed_location_ids)})

\* faulty variant: no early return for an unrestricted user
get_effective_location_ids_no_guard ==
    search_ids({l \in Locations :
                   /\ child_of(l, allowed_location_ids)
                   /\ usage[l] \in {"internal", "transit"}})

get_effective_location_ids ==
    IF ~restrict_stock_access \/ allowed_location_ids = {}
    THEN <<>>
    ELSE search_ids({l \in Locations :
                        /\ child_of(l, allowed_location_ids)
                        /\ usage[l] \in {"internal", "transit"}})

RECURSIVE walk_up(_, _, _)
\* while current and current.id not in seen: seen.add(current.id);
\*     ancestor_locations |= current; current = current.location_id
walk_up(current, seen, acc) ==
    IF current # NoLoc /\ current \notin seen
    THEN walk_up(location_id[current], seen \cup {current}, Append(acc, current))
    ELSE [seen |-> seen, acc |-> acc]

RECURSIVE ancestor_loop(_, _, _)
\* for loc in self.allowed_location_ids.sudo(): ...
ancestor_loop(locs, seen, acc) ==
    IF locs = <<>>
    THEN acc
    ELSE LET r == walk_up(Head(locs), seen, acc)
         IN  ancestor_loop(Tail(locs), r.seen, r.acc)

ancestor_locations_ids == ancestor_loop(SetToSeq(allowed_location_ids), {}, <<>>)

technical_locations_ids ==
    search_ids({l \in Locations :
                   \/ usage[l] = "view"
                   \/ usage[l] = "transit"
                   \/ usage[l] = "inventory"
                   \/ usage[l] \notin {"internal"}})

\* faulty variant: the three lists are concatenated without set()
get_all_location_ids_with_access_no_set ==
    IF ~has_stock_restriction
    THEN <<>>
    ELSE get_effective_location_ids \o ancestor_locations_ids \o technical_locations_ids

\* faulty variant: effective_ids is left out of the result
get_all_location_ids_with_access_no_effective ==
    IF ~has_stock_restriction
    THEN <<>>
    ELSE SetToSeq(Range(ancestor_locations_ids \o technical_locations_ids))

get_all_location_ids_with_access ==
    IF ~has_stock_restriction
    THEN <<>>
    ELSE SetToSeq(Range(get_effective_location_ids
                        \o ancestor_locations_ids
                        \o technical_locations_ids))

\* the first element of a list of ids that is not in `allowed` (Absent if none):
\* the element at which a `for ... if x not in allowed_ids: raise` loop stops
RECURSIVE first_not_in(_, _)
first_not_in(ids, allowed) ==
    IF ids = <<>> THEN Absent
    ELSE IF Head(ids) \notin allowed THEN Head(ids)
    ELSE first_not_in(Tail(ids), allowed)

\* faulty variant: superuser mode is not tested
check_location_access_ignoring_su(loc, operation, su) ==
    IF ~has_stock_restriction
    THEN TRUE
    ELSE IF operation = "read"
         THEN loc \in Range(get_all_location_ids_with_access)
         ELSE loc \in Range(get_effective_location_ids)

check_location_access(loc, operation, su) ==
    IF ~has_stock_restriction \/ su
    THEN TRUE
    ELSE IF operation = "read"
         THEN loc \in Range(get_all_location_ids_with_access)
         ELSE loc \in Range(get_effective_location_ids)

\* ----------------------------------------------------------- outcomes
\* raise AccessError(message): `names` are the ids the message is formatted with
AccessError(site, names) == [kind |-> "AccessError", site |-> site, names |-> names]
\* raise UserError(message): the other exception class the module imports
UserError(site, names) == [kind |-> "UserError", site |-> site, names |-> names]
\* return super().method(...): the host implementation decides
Super == [kind |-> "super"]
\* return value
Return(v) == [kind |-> "return", value |-> v]
\* super()._search(domain): the domain is a conjunction of id sets
SuperSearch(domain) == [kind |-> "super", domain |-> domain]

RECURSIVE Conj(_)
Conj(domain) == IF domain = <<>> THEN Locations ELSE Head(domain) \cap Conj(Tail(domain))
\* the ids the host's _search returns for a domain
SearchResult(out) == Conj(out.domain)

\* ------------------------------------------------------- stock.location
\* faulty variant: the filter uses the effective list, which may be empty
location_search_effective(domain, su) ==
    IF ~su /\ has_stock_restriction
    THEN LET allowed_ids == get_effective_location_ids
         IN  IF allowed_ids # <<>>
             THEN SuperSearch(<<domain, Range(allowed_ids)>>)
             ELSE SuperSearch(<<domain>>)
    ELSE SuperSearch(<<domain>>)

\* StockLocation._search: `domain` is the set of ids the caller's domain matches
location_search(domain, su) ==
    IF ~su /\ has_stock_restriction
    THEN LET allowed_ids == get_all_location_ids_with_access
         IN  IF allowed_ids # <<>>
             THEN SuperSearch(<<domain, Range(allowed_ids)>>)
             ELSE SuperSearch(<<domain>>)
    ELSE SuperSearch(<<domain>>)

\* faulty variant: an empty record set is granted too
location_check_access_rule_empty_granted(ids, operation, su) ==
    IF ~su /\ has_stock_restriction /\ operation = "read"
    THEN LET allowed_ids == Range(get_all_location_ids_with_access)
         IN  IF \A loc_id \in ids : loc_id \in allowed_ids
             THEN Return("None")
             ELSE Super
    ELSE Super

\* StockLocation.check_access_rule on the records `ids`
location_check_access_rule(ids, operation, su) ==
    IF ~su /\ has_stock_restriction /\ operation = "read"
    THEN LET allowed_ids == Range(get_all_location_ids_with_access)
         IN  IF ids # {} /\ (\A loc_id \in ids : loc_id \in allowed_ids)
             THEN Return("None")
             ELSE Super
    ELSE Super

\* ---------------------------------------------------------- stock.quant
\* faulty variant: an empty effective list leaves the domain as it is
quant_search_unfiltered_when_empty(domain, su) ==
    IF ~su /\ has_stock_restriction
    THEN LET allowed_ids == get_effective_location_ids
         IN  IF allowed_ids # <<>>
             THEN SuperSearch(<<domain, Range(allowed_ids)>>)
             ELSE SuperSearch(<<domain>>)
    ELSE SuperSearch(<<domain>>)

\* StockQuant._search: a quant is identified by its location_id; `domain` is the
\* set of quants the caller's domain matches; ('id', '=', 0) matches no record
quant_search(domain, su) ==
    IF ~su /\ has_stock_restriction
    THEN LET allowed_ids == get_effective_location_ids
         IN  IF allowed_ids # <<>>
             THEN SuperSearch(<<domain, Range(allowed_ids)>>)
             ELSE SuperSearch(<<domain, {}>>)
    ELSE SuperSearch(<<domain>>)

\* faulty variant: raises UserError instead of AccessError
quant_create_user_error(vals_list, su) ==
    IF ~su /\ has_stock_restriction
    THEN LET allowed_ids == Range(get_effective_location_ids)
             bad == first_not_in(SelectSeq(vals_list, LAMBDA v : v # NoLoc), allowed_ids)
         IN  IF bad # Absent THEN UserError("quant.create", {bad}) ELSE Super
    ELSE Super

\* StockQuant.create: vals_list holds each vals' location_id (NoLoc: none given)
quant_create(vals_list, su) ==
    IF ~su /\ has_stock_restriction
    THEN LET allowed_ids == Range(get_effective_location_ids)
             bad == first_not_in(SelectSeq(vals_list, LAMBDA v : v # NoLoc), allowed_ids)
         IN  IF bad # Absent THEN AccessError("quant.create", {bad}) ELSE Super
    ELSE Super

\* faulty variant: the loop over the quants' current locations is missing
quant_write_no_current(quants, dest, su) ==
    IF ~su /\ has_stock_restriction
    THEN LET allowed_ids == Range(get_effective_location_ids)
         IN  IF dest # Absent /\ dest \notin allowed_ids
             THEN AccessError("quant.write.destination", {})
             ELSE Super
    ELSE Super

\* StockQuant.write: `quants` are the current locations of the records written,
\* `dest` is vals['location_id'] (Absent: the key is not in vals)
quant_write(quants, dest, su) ==
    IF ~su /\ has_stock_restriction
    THEN LET allowed_ids == Range(get_effective_location_ids)
             bad == first_not_in(quants, allowed_ids)
         IN  IF dest # Absent /\ dest \notin allowed_ids
             THEN AccessError("quant.write.destination", {})
             ELSE IF bad # Absent
                  THEN AccessError("quant.write.current", {bad})
                  ELSE Super
    ELSE Super

\* StockQuant.action_apply_inventory
quant_action_apply_inventory(quants, su) ==
    IF ~su /\ has_stock_restriction
    THEN LET allowed_ids == Range(get_effective_location_ids)
             bad == first_not_in(quants, allowed_ids)
         IN  IF bad # Absent
             THEN AccessError("quant.action_apply_inventory", {bad})
             ELSE Super
    ELSE Super

\* ----------------------------------------------------------- stock.move
\* the first move of the batch with neither endpoint allowed (<<>> if none)
RECURSIVE first_foreign_move(_, _)
first_foreign_move(moves, allowed) ==
    IF moves = <<>> THEN <<>>
    ELSE LET move == Head(moves)
             is_source_allowed == move[1] \in allowed
             is_dest_allowed == move[2] \in allowed
         IN  IF ~(is_source_allowed \/ is_dest_allowed)
             THEN move
             ELSE first_foreign_move(Tail(moves), allowed)

\* StockMove.check_access_rule: host_ok is whether the host's standard check passes
move_check_access_rule(moves, host_ok) ==
    IF host_ok
    THEN Super
    ELSE IF ~has_stock_restriction
         THEN [kind |-> "reraise"]
         ELSE LET bad == first_foreign_move(moves, Range(get_effective_location_ids))
              IN  IF bad # <<>>
                  THEN AccessError("move.check_access_rule", {bad[1], bad[2]})
                  ELSE Return("None")

\* ----------------------------------------------------------- sale.order
\* user.allowed_warehouse_ids[0]
first_warehouse == Min(allowed_warehouse_ids)

\* SaleOrder.default_get: the warehouse_id of the defaults returned
sale_default_get(wanted, host_default) ==
    IF wanted /\ has_stock_restriction /\ allowed_warehouse_ids # {}
    THEN first_warehouse
    ELSE host_default

\* SaleOrder._onchange_warehouse_restriction
sale_onchange_warehouse_restriction(warehouse_id) ==
    IF /\ warehouse_id # NoWh
       /\ has_stock_restriction /\ allowed_warehouse_ids # {}
       /\ warehouse_id \notin allowed_warehouse_ids
    THEN [kind |-> "warning", names |-> {warehouse_id}, value |-> first_warehouse]
    ELSE Return("None")

\* faulty variant: no warehouse test before the host's confirmation
sale_action_confirm_unchecked(warehouse_id, su) == Super

\* SaleOrder.action_confirm
sale_action_confirm(warehouse_id, su) ==
    IF /\ ~su /\ has_stock_restriction /\ allowed_warehouse_ids # {}
       /\ warehouse_id \notin allowed_warehouse_ids
    THEN AccessError("sale.action_confirm", {warehouse_id} \cup allowed_warehouse_ids)
    ELSE Super

\* --------------------------------------------------------- configuration
Init ==
    /\ location_id = [l \in Locations |-> NoLoc]
    /\ usage = [l \in Locations |-> "internal"]
    /\ restrict_stock_access = FALSE
    /\ allowed_location_ids = {}
    /\ allowed_warehouse_ids = {}
    /\ has_stock_restriction = FALSE
    /\ last = None

\* a warehouse tree: location 2 lies under location 1, the others are roots
InitOps ==
    /\ location_id = [l \in Locations |-> IF l = 2 THEN 1 ELSE NoLoc]
    /\ usage = [l \in Locations |-> "internal"]
    /\ restrict_stock_access = FALSE
    /\ allowed_location_ids = {}
    /\ allowed_warehouse_ids = {}
    /\ has_stock_restriction = FALSE
    /\ last = None

\* location.location_id = p; the tree stays a forest (the host refuses recursive
\* hierarchies), here with every parent's id below its children's
SetParent(l, p) ==
    /\ last = None
    /\ p # location_id[l]
    /\ p < l
    /\ location_id' = [location_id EXCEPT ![l] = p]
    /\ UNCHANGED <<usage, restrict_stock_access, allowed_location_ids,
                   allowed_warehouse_ids, has_stock_restriction, last>>

SetUsage(l, u) ==
    /\ last = None
    /\ u # usage[l]
    /\ usage' = [usage EXCEPT ![l] = u]
    /\ UNCHANGED <<location_id, restrict_stock_access, allowed_location_ids,
                   allowed_warehouse_ids, has_stock_restriction, last>>

SetRestrict(b) ==
    /\ last = None
    /\ b # restrict_stock_access
    /\ restrict_stock_access' = b
    /\ has_stock_restriction' = compute_has_stock_restriction(b, allowed_location_ids)
    /\ UNCHANGED <<location_id, usage, allowed_location_ids, allowed_warehouse_ids, last>>

SetAllowedLocations(ids) ==
    /\ last = None
    /\ ids # allowed_location_ids
    /\ allowed_location_ids' = ids
    /\ has_stock_restriction' = compute_has_stock_restriction(restrict_stock_access, ids)
    /\ UNCHANGED <<location_id, usage, restrict_stock_access, allowed_warehouse_ids, last>>

AssignLocation(l) ==
    l \notin allowed_location_ids /\ SetAllowedLocations(allowed_location_ids \cup {l})

UnassignLocation(l) ==
    l \in allowed_location_ids /\ SetAllowedLocations(allowed_location_ids \ {l})

SetAllowedWarehouses(ids) ==
    /\ last = None
    /\ ids # allowed_warehouse_ids
    /\ allowed_warehouse_ids' = ids
    /\ UNCHANGED <<location_id, usage, restrict_stock_access, allowed_location_ids,
                   has_stock_restriction, last>>

AssignWarehouse(w) ==
    w \notin allowed_warehouse_ids /\ SetAllowedWarehouses(allowed_warehouse_ids \cup {w})

UnassignWarehouse(w) ==
    w \in allowed_warehouse_ids /\ SetAllowedWarehouses(allowed_warehouse_ids \ {w})

\* ---------------------------------------------------------------- requests
\* a request is served in one step on the state as it is; the configuration
\* changes between requests
Answer(r) ==
    /\ last = None
    /\ last' = r
    /\ UNCHANGED <<location_id, usage, restrict_stock_access, allowed_location_ids,
                   allowed_warehouse_ids, has_stock_restriction>>

\* the request is over
Done ==
    /\ last # None
    /\ last' = None
    /\ UNCHANGED <<location_id, usage, restrict_stock_access, allowed_location_ids,
                   allowed_warehouse_ids, has_stock_restriction>>

CallGetEffective ==
    Answer([op |-> "get_effective_location_ids", result |-> get_effective_location_ids])

CallGetAll ==
    Answer([op |-> "get_all_location_ids_with_access",
            result |-> get_all_location_ids_with_access])

CallCheckLocationAccess(loc, operation, su) ==
    Answer([op |-> "check_location_access", loc |-> loc, operation |-> operation,
            su |-> su, result |-> check_location_access(loc, operation, su)])

CallLocationSearch(domain, su) ==
    Answer([op |-> "location._search", domain |-> domain, su |-> su,
            out |-> location_search(domain, su)])

CallLocationCheckAccessRule(ids, operation, su) ==
    Answer([op |-> "location.check_access_rule", ids |-> ids, operation |-> operation,
            su |-> su, out |-> location_check_access_rule(ids, operation, su)])

CallQuantSearch(domain, su) ==
    Answer([op |-> "quant._search", domain |-> domain, su |-> su,
            out |-> quant_search(domain, su)])

CallQuantCreate(vals, su) ==
    Answer([op |-> "quant.create", vals |-> vals, su |-> su,
            out |-> quant_create(SetToSeq(vals), su)])

CallQuantWrite(quants, dest, su) ==
    Answer([op |-> "quant.write", quants |-> quants, dest |-> dest, su |-> su,
            out |-> quant_write(SetToSeq(quants), dest, su)])

CallQuantApply(quants, su) ==
    Answer([op |-> "quant.action_apply_inventory", quants |-> quants, su |-> su,
            out |-> quant_action_apply_inventory(SetToSeq(quants), su)])

CallMoveCheck(moves, host_ok) ==
    Answer([op |-> "move.check_access_rule", moves |-> moves, host_ok |-> host_ok,
            out |-> move_check_access_rule(MovesToSeq(moves), host_ok)])

\* the host's defaults hold a warehouse only if 'warehouse_id' is in fields_list
CallSaleDefaultGet(wanted, host_default) ==
    Answer([op |-> "sale.default_get", wanted |-> wanted, host_default |-> host_default,
            warehouse_id |-> sale_default_get(wanted, host_default)])

CallSaleOnchange(w) ==
    Answer([op |-> "sale._onchange_warehouse_restriction", warehouse_id |-> w,
            out |-> sale_onchange_warehouse_restriction(w)])

CallSaleConfirm(w, su) ==
    Answer([op |-> "sale.action_confirm", warehouse_id |-> w, su |-> su,
            out |-> sale_action_confirm(w, su)])

\* ----------------------------------------------------------- specifications
\* Spec: any change of the tree, the usage tags, the flag and the assignment,
\* the res.users methods and the write of one quant
Next ==
    \/ \E l \in Locations, p \in Locations \cup {NoLoc} : SetParent(l, p)
    \/ \E l \in Locations, u \in Usages : SetUsage(l, u)
    \/ \E b \in BOOLEAN : SetRestrict(b)
    \/ \E l \in Locations : AssignLocation(l)
    \/ \E l \in Locations : UnassignLocation(l)
    \/ CallGetEffective
    \/ CallGetAll
    \/ \E l \in Locations, o \in Operations : CallCheckLocationAccess(l, o, FALSE)
    \/ \E l \in Locations : CallQuantWrite({l}, Absent, FALSE)
    \/ Done

Spec == Init /\ [][Next]_vars

\* SpecOps: a fixed tree; the usage tags, the flag and the assignment change,
\* and locations, quants and moves are searched, written and checked
NextOps ==
    \/ \E l \in Locations, u \in OpsUsages : SetUsage(l, u)
    \/ \E b \in BOOLEAN : SetRestrict(b)
    \/ \E l \in Locations : AssignLocation(l)
    \/ \E l \in Locations : UnassignLocation(l)
    \/ \E l \in Locations, o \in Operations, su \in BOOLEAN : CallCheckLocationAccess(l, o, su)
    \/ \E d \in SUBSET Locations, su \in BOOLEAN : CallLocationSearch(d, su)
    \/ \E i \in SUBSET Locations, o \in Operations, su \in BOOLEAN :
            CallLocationCheckAccessRule(i, o, su)
    \/ \E d \in SUBSET Locations, su \in BOOLEAN : CallQuantSearch(d, su)
    \/ \E v \in ValsLists, su \in BOOLEAN : CallQuantCreate(v, su)
    \/ \E q \in SUBSET Locations, d \in Destinations, su \in BOOLEAN : CallQuantWrite(q, d, su)
    \/ \E q \in SUBSET Locations, su \in BOOLEAN : CallQuantApply(q, su)
    \/ \E m \in MoveBatches, h \in BOOLEAN : CallMoveCheck(m, h)
    \/ Done

SpecOps == InitOps /\ [][NextOps]_vars

\* SpecAll: a fixed tree with fixed usage tags; the flag, the assigned locations
\* and the allowed warehouses change, and every overridden method is called
NextAll ==
    \/ \E b \in BOOLEAN : SetRestrict(b)
    \/ \E l \in Locations : AssignLocation(l)
    \/ \E l \in Locations : UnassignLocation(l)
    \/ \E w \in Warehouses : AssignWarehouse(w)
    \/ \E w \in Warehouses : UnassignWarehouse(w)
    \/ CallGetEffective
    \/ CallGetAll
    \/ \E l \in Locations, o \in Operations, su \in BOOLEAN : CallCheckLocationAccess(l, o, su)
    \/ \E d \in SUBSET Locations, su \in BOOLEAN : CallLocationSearch(d, su)
    \/ \E i \in SUBSET Locations, o \in Operations, su \in BOOLEAN :
            CallLocationCheckAccessRule(i, o, su)
    \/ \E d \in SUBSET Locations, su \in BOOLEAN : CallQuantSearch(d, su)
    \/ \E v \in ValsLists, su \in BOOLEAN : CallQuantCreate(v, su)
    \/ \E q \in SUBSET Locations, d \in Destinations, su \in BOOLEAN : CallQuantWrite(q, d, su)
    \/ \E q \in SUBSET Locations, su \in BOOLEAN : CallQuantApply(q, su)
    \/ \E m \in MoveBatches, h \in BOOLEAN : CallMoveCheck(m, h)
    \/ \E f \in BOOLEAN, w \in Warehouses \cup {NoWh} :
            (f \/ w = NoWh) /\ CallSaleDefaultGet(f, w)
    \/ \E w \in Warehouses \cup {NoWh} : CallSaleOnchange(w)
    \/ \E w \in Warehouses \cup {NoWh}, su \in BOOLEAN : CallSaleConfirm(w, su)
    \/ Done

SpecAll == InitOps /\ [][NextAll]_vars

\* =================================================================== claims
\* What the claims speak of, stated on the configuration itself.
RECURSIVE Up(_, _)
\* the k-th ancestor of l (NoLoc above the root)
Up(l, k) == IF k = 0 \/ l = NoLoc THEN l ELSE Up(location_id[l], k - 1)

\* l is a, or lies below a in the tree
Below(l, a) == \E k \in 0..MaxLoc : Up(l, k) = a

Restricted == restrict_stock_access /\ allowed_location_ids # {}

Operational(l) == usage[l] = "internal" \/ usage[l] = "transit"

EffectiveSet ==
    IF Restricted
    THEN {l \in Locations : Operational(l) /\ \E a \in allowed_location_ids : Below(l, a)}
    ELSE {}

AncestorsOfAssigned == {l \in Locations : \E a \in allowed_location_ids : Below(a, l)}

VisibleSet ==
    IF Restricted
    THEN EffectiveSet \cup AncestorsOfAssigned \cup {l \in Locations : usage[l] # "internal"}
    ELSE {}

HasOutcome == last.op \in {"location._search", "location.check_access_rule", "quant._search",
                           "quant.create",
                           "quant.write", "quant.action_apply_inventory",
                           "move.check_access_rule",
                           "sale._onchange_warehouse_restriction", "sale.action_confirm"}

Denied == HasOutcome /\ last.out.kind \notin {"super", "return", "reraise", "warning"}

\* ----------------------------------------------------------------------- C1
\* C1: for a restricted user outside superuser mode, a write-class operation
\* (check_location_access 'write', quant create, quant write, action_apply_inventory)
\* goes through when every location it touches is in the effective set and is
\* denied with an AccessError when one of them is outside it.
C1_WriteClassFollowsEffectiveSet ==
    (Restricted /\ last.op \in {"check_location_access", "quant.create", "quant.write",
                                "quant.action_apply_inventory"} /\ ~last.su)
    => CASE last.op = "check_location_access" ->
                last.operation = "write" => (last.result <=> last.loc \in EffectiveSet)
         [] last.op = "quant.create" ->
                IF (last.vals \ {NoLoc}) \subseteq EffectiveSet
                THEN last.out = Super
                ELSE last.out.kind = "AccessError"
         [] last.op = "quant.write" ->
                IF /\ last.quants \subseteq EffectiveSet
                   /\ (last.dest = Absent \/ last.dest \in EffectiveSet)
                THEN last.out = Super
                ELSE last.out.kind = "AccessError"
         [] last.op = "quant.action_apply_inventory" ->
                IF last.quants \subseteq EffectiveSet
                THEN last.out = Super
                ELSE last.out.kind = "AccessError"

\* a restricted user moved a quant between two locations of the effective set
C1_Witness ==
    /\ Restricted
    /\ last.op = "quant.write" /\ ~last.su
    /\ last.quants # {} /\ last.quants \subseteq EffectiveSet
    /\ last.dest \in EffectiveSet /\ last.dest \notin last.quants
    /\ EffectiveSet # Locations
    /\ last.out = Super

\* ----------------------------------------------------------------------- C2
\* C2: StockMove.check_access_rule of a restricted user succeeds when every move
\* has its source or its destination in the effective set, and fails with an
\* access denial when a move has neither, whatever the host's standard check says.
C2_EitherEndpointRule ==
    (Restricted /\ last.op = "move.check_access_rule")
    => IF \A m \in last.moves : m[1] \in EffectiveSet \/ m[2] \in EffectiveSet
       THEN last.out.kind \in {"super", "return"}
       ELSE last.out.kind = "AccessError"

C4_VisibleIncludesEffective ==
    /\ last.op = "get_effective_location_ids"
         => Range(last.result) \subseteq Range(get_all_location_ids_with_access)
    /\ last.op = "get_all_location_ids_with_access"
         => Range(get_effective_location_ids) \subseteq Range(last.result)

\* the visible list was returned and is strictly larger than a non-empty effective list
C4_Witness ==
    /\ last.op = "get_all_location_ids_with_access"
    /\ get_effective_location_ids # <<>>
    /\ Range(last.result) # Range(get_effective_location_ids)
    /\ location_id # [l \in Locations |-> NoLoc]

\* ----------------------------------------------------------------------- C5
\* C5: for a restricted user get_effective_location_ids is exactly the assigned
\* locations and their descendants whose usage is internal or transit; an
\* assigned location of another usage is left out, its internal/transit
\* descendants are in.
C5_EffectiveIsFilteredClosure ==
    (Restricted /\ last.op = "get_effective_location_ids")
    => /\ Range(last.result) = EffectiveSet
       /\ \A a \in allowed_location_ids :
            ~Operational(a)
            => /\ a \notin Range(last.result)
               /\ \A l \in Locations :
                    (Below(l, a) /\ Operational(l)) => l \in Range(last.result)

\* an assigned view location is left out of the returned list, a location below it is in
C5_Witness ==
    /\ Restricted
    /\ last.op = "get_effective_location_ids"
    /\ \E a \in allowed_location_ids, l \in Locations :
         /\ ~Operational(a) /\ a \notin Range(last.result)
         /\ l # a /\ Below(l, a) /\ l \in Range(last.result)

\* ----------------------------------------------------------------------- C6
\* C6: for a restricted user get_all_location_ids_with_access is, without
\* duplicates, the effective set, the assigned locations with all their
\* ancestors, and every location whose usage is not internal; an internal
\* location that is not assigned, not below an assigned one and not above one
\* is not in it.
C6_VisibleIsExactUnion ==
    (Restricted /\ last.op = "get_all_location_ids_with_access")
    => /\ Range(last.result) = VisibleSet
       /\ NoDuplicates(last.result)
       /\ \A l \in Locations :
            (/\ usage[l] = "internal"
             /\ l \notin allowed_location_ids
             /\ ~(\E a \in allowed_location_ids : Below(l, a))
             /\ ~(\E a \in allowed_location_ids : Below(a, l)))
            => l \notin Range(last.result)

\* the returned list holds an ancestor that is internal and not assigned, and
\* leaves out an unrelated internal location
C6_Witness ==
    /\ Restricted
    /\ last.op = "get_all_location_ids_with_access"
    /\ \E l \in Range(last.result) :
         usage[l] = "internal" /\ l \notin EffectiveSet /\ l \in AncestorsOfAssigned
    /\ \E l \in Locations : usage[l] = "internal" /\ l \notin Range(last.result)

\* ----------------------------------------------------------------------- C7
\* C7 (as stated): every denial of the layer is an AccessError whose message
\* names the offending location(s) or warehouse, the destination check of quant
\* write included.
C7_EveryDenialNamesOffender ==
    Denied
    => /\ last.out.kind = "AccessError"
       /\ CASE last.op = "quant.create" ->
                 \E l \in last.out.names : l \in last.vals /\ l \notin EffectiveSet
            [] last.op = "quant.write" ->
                 IF last.out.site = "quant.write.destination"
                 THEN last.dest \in last.out.names
                 ELSE \E l \in last.out.names : l \in last.quants /\ l \notin EffectiveSet
            [] last.op = "quant.action_apply_inventory" ->
                 \E l \in last.out.names : l \in last.quants /\ l \notin EffectiveSet
            [] last.op = "move.check_access_rule" ->
                 \E m \in last.moves :
                    /\ last.out.names = {m[1], m[2]}
                    /\ m[1] \notin EffectiveSet /\ m[2] \notin EffectiveSet
            [] last.op = "sale.action_confirm" ->
                 last.warehouse_id \in last.out.names
            [] OTHER -> FALSE

\* C7 (amended): every denial of the layer is an AccessError; its message names
\* the offending location (quant create, the current-location check of quant
\* write, action_apply_inventory), both locations of the offending move, or the
\* order's warehouse; the destination check of quant write names no location.
C7_DenialsAreAccessErrors ==
    Denied
    => /\ last.out.kind = "AccessError"
       /\ CASE last.op = "quant.create" ->
                 \E l \in last.out.names : l \in last.vals /\ l \notin EffectiveSet
            [] last.op = "quant.write" ->
                 IF last.out.site = "quant.write.destination"
                 THEN last.out.names = {} /\ last.dest # Absent /\ last.dest \notin EffectiveSet
                 ELSE \E l \in last.out.names : l \in last.quants /\ l \notin EffectiveSet
            [] last.op = "quant.action_apply_inventory" ->
                 \E l \in last.out.names : l \in last.quants /\ l \notin EffectiveSet
            [] last.op = "move.check_access_rule" ->
                 \E m \in last.moves :
                    /\ last.out.names = {m[1], m[2]}
                    /\ m[1] \notin EffectiveSet /\ m[2] \notin EffectiveSet
            [] last.op = "sale.action_confirm" ->
                 last.warehouse_id \in last.out.names
            [] OTHER -> FALSE

\* a quant write was denied by the destination check
C7_Witness ==
    /\ last.op = "quant.write"
    /\ last.out.kind = "AccessError"
    /\ last.out.site = "quant.write.destination"
    /\ last.dest \in Locations

\* ----------------------------------------------------------------------- C8
\* the decision of check_location_access taken on the current configuration
Decision(loc, operation) ==
    \/ ~Restricted
    \/ IF operation = "read" THEN loc \in VisibleSet ELSE loc \in EffectiveSet

Removed(l) == l \in allowed_location_ids /\ l \notin allowed_location_ids'
Added(l) == l \notin allowed_location_ids /\ l \in allowed_location_ids'

C10_SearchWithinVisible ==
    (Restricted /\ last.op = "location._search" /\ ~last.su)
    => /\ get_all_location_ids_with_access # <<>>
       /\ last.out = SuperSearch(<<last.domain, VisibleSet>>)
       /\ SearchResult(last.out) \subseteq VisibleSet
       /\ SearchResult(last.out) = last.domain \cap VisibleSet

\* a restricted user with an empty effective set searched all locations and
\* got fewer than all
C10_Witness ==
    /\ Restricted /\ EffectiveSet = {}
    /\ last.op = "location._search" /\ ~last.su
    /\ last.domain = Locations
    /\ SearchResult(last.out) # Locations
    /\ SearchResult(last.out) # {}

\* C11: a search of quants by a restricted user outside superuser mode returns only
\* quants located in the user's effective set, and returns no quant at all when
\* the effective set is empty
C11_QuantSearchWithinEffective ==
    (last.op = "quant._search" /\ ~last.su /\ Restricted)
        => /\ SearchResult(last.out) = last.domain \cap EffectiveSet
           /\ (EffectiveSet = {} => SearchResult(last.out) = {})

\* a restricted user whose assigned locations are all views searches a non-empty
\* domain and gets nothing
C11_Witness ==
    /\ last.op = "quant._search" /\ ~last.su /\ Restricted
    /\ EffectiveSet = {}
    /\ last.domain # {}
    /\ SearchResult(last.out) = {}

\* C12: in superuser mode nothing is denied or filtered even for a restricted
\* user: check_location_access returns True, the location and quant searches pass
\* the caller's domain on unchanged, and quant create, quant write,
\* action_apply_inventory and sale.order action_confirm (and the location record
\* rule) go straight to the host implementation
C12_SuperuserBypasses ==
    (Restricted /\ last.op \in {"check_location_access", "location._search",
                                "location.check_access_rule", "quant._search",
                                "quant.create", "quant.write",
                                "quant.action_apply_inventory", "sale.action_confirm"}
                /\ last.su)
    => /\ last.op = "check_location_access" => last.result = TRUE
       /\ last.op \in {"location._search", "quant._search"}
            => /\ last.out = SuperSearch(<<last.domain>>)
               /\ SearchResult(last.out) = last.domain
       /\ last.op \in {"location.check_access_rule", "quant.create", "quant.write",
                       "quant.action_apply_inventory", "sale.action_confirm"}
            => last.out = Super
       /\ ~Denied

\* in superuser mode a restricted user writes a quant that lies outside the
\* effective set, moving it to a location outside the effective set
C12_Witness ==
    /\ Restricted /\ last.op = "quant.write" /\ last.su
    /\ last.quants # {} /\ last.quants \cap EffectiveSet = {}
    /\ last.dest \in Locations \ EffectiveSet
    /\ last.out = Super

\* C13: StockLocation.check_access_rule never denies by itself: a read by a
\* restricted non-superuser of a non-empty record set inside the visible set is
\* granted without the host's record-rule check, and in every other case the
\* outcome is the host's check
C13_LocationRuleGrantsOrDefers ==
    last.op = "location.check_access_rule"
    => /\ last.out.kind \notin {"AccessError", "UserError"}
       /\ last.out = IF /\ ~last.su /\ Restricted /\ last.operation = "read"
                        /\ last.ids # {} /\ last.ids \subseteq VisibleSet
                     THEN Return("None")
                     ELSE Super

\* a restricted user reads a visible location that is outside the effective set
\* and the rule grants it without the host's check
C13_Witness ==
    /\ last.op = "location.check_access_rule"
    /\ ~last.su /\ Restricted /\ last.operation = "read"
    /\ last.ids # {} /\ last.ids \subseteq VisibleSet
    /\ last.ids \cap EffectiveSet = {}
    /\ last.out = Return("None")

====
